---- MODULE Spec2Model ----
(***************************************************************************)
(* Sieve-analysis engine of the Sand Fineness Modulus Calculator           *)
(* (src/fm-calculator.py): the weight table, FMCalculator.calculate_fm,    *)
(* FMCalculator.update_graph, FMCalculator.export_report and               *)
(* get_sand_type.                                                          *)
(*                                                                         *)
(* Numbers.  Python floats are modelled as exact rationals n/d (d > 0, in  *)
(* lowest terms) plus the value NaN, which float() accepts as the text     *)
(* "nan".  Binary rounding error of IEEE doubles is not modelled: a value   *)
(* the program computes equals the model's up to that error, which can     *)
(* carry an FM that lies exactly on the end of a band across it.  The      *)
(* texts float() reads as infinities are outside the input sets.           *)
(*                                                                         *)
(* Texts.  A cell text is a tagged value: the empty text, a non-empty text *)
(* float() rejects (letters, white space only), a decimal integer literal, *)
(* the text "nan", a number printed with two decimals by the format spec   *)
(* ".2f" (kept as an integer count of hundredths), or the "-" placeholder  *)
(* of the report.                                                          *)
(***************************************************************************)
EXTENDS Integers, Sequences, FiniteSets, TLC

(***************************************************************************)
(* Bounds of the model                                                     *)
(***************************************************************************)
MaxEdits == 1       \* weight cells typed over after the first filling
MaxWeight == 2      \* largest integer literal typed in an edit
MaxNeg == 1         \* largest magnitude of a negative literal typed in an edit
MaxShift == 2       \* largest amount of weight moved between two sieves when comparing datasets

(***************************************************************************)
(* Floats                                                                  *)
(***************************************************************************)
RECURSIVE GCD(_, _)
GCD(a, b) == IF b = 0 THEN a ELSE GCD(b, a % b)

Abs(n) == IF n < 0 THEN -n ELSE n

Num(n, d) == LET g == GCD(Abs(n), d) IN [k |-> "num", n |-> n \div g, d |-> d \div g]

NaN == [k |-> "nan", n |-> 0, d |-> 1]

IsNaN(x) == x.k = "nan"

Zero == Num(0, 1)

Hundred == Num(100, 1)

FAdd(x, y) == IF IsNaN(x) \/ IsNaN(y) THEN NaN ELSE Num(x.n * y.d + y.n * x.d, x.d * y.d)

FSub(x, y) == IF IsNaN(x) \/ IsNaN(y) THEN NaN ELSE Num(x.n * y.d - y.n * x.d, x.d * y.d)

FMul(x, y) == IF IsNaN(x) \/ IsNaN(y) THEN NaN ELSE Num(x.n * y.n, x.d * y.d)

\* The divisor is never zero where the program divides: the total is
\* checked against "<= 0" first and 100 is a literal.
FDiv(x, y) ==
    IF IsNaN(x) \/ IsNaN(y) THEN NaN
    ELSE IF y.n > 0 THEN Num(x.n * y.d, x.d * y.n)
    ELSE Num((-x.n) * y.d, x.d * (-y.n))

\* x <= y; every comparison with NaN is false
FLe(x, y) == ~IsNaN(x) /\ ~IsNaN(y) /\ x.n * y.d <= y.n * x.d

\* sum of the first n entries of s, left to right, starting from the int 0
RECURSIVE SumFloats(_, _)
SumFloats(s, n) == IF n = 0 THEN Zero ELSE FAdd(SumFloats(s, n - 1), s[n])

(***************************************************************************)
(* Texts                                                                   *)
(***************************************************************************)
Empty == [t |-> "empty", v |-> 0]

Junk == [t |-> "junk", v |-> 0]

NanText == [t |-> "nan", v |-> 0]

Dash == [t |-> "dash", v |-> 0]

IntText(n) == [t |-> "int", v |-> n]

Fix2Text(h) == [t |-> "fix2", v |-> h]

\* float(text) raises ValueError exactly on the texts that are not Parseable
Parseable(text) == text.t \in {"int", "fix2", "nan"}

float(text) ==
    CASE text.t = "int" -> Num(text.v, 1)
      [] text.t = "fix2" -> Num(text.v, 100)
      [] text.t = "nan" -> NaN

\* round-half-even of the rational n/d (d > 0) to an integer
RoundHalfEven(n, d) ==
    LET f == n \div d
        r == n % d
    IN  IF 2 * r < d THEN f
        ELSE IF 2 * r > d THEN f + 1
        ELSE IF f % 2 = 0 THEN f ELSE f + 1

\* f"{x:.2f}"
Format2(x) == IF IsNaN(x) THEN NanText ELSE Fix2Text(RoundHalfEven(100 * x.n, x.d))

(***************************************************************************)
(* Configuration tables                                                    *)
(***************************************************************************)
\* openings in hundredths of a millimetre, the pan (0) last
sieve_sizes == <<475, 236, 118, 60, 30, 15, 0>>

NumSieves == Len(sieve_sizes)

Rows == 1..NumSieves

SAND_TYPES ==
    << [name |-> "Fine Sand",   lo |-> Num(10, 10), hi |-> Num(22, 10)],
       [name |-> "Medium Sand", lo |-> Num(22, 10), hi |-> Num(30, 10)],
       [name |-> "Coarse Sand", lo |-> Num(30, 10), hi |-> Num(40, 10)] >>

InBand(b, fm_value) == FLe(b.lo, fm_value) /\ FLe(fm_value, b.hi)

\* variant: the last matching band wins
get_sand_type_last_match(fm_value) ==
    LET hits == {i \in 1..Len(SAND_TYPES) : InBand(SAND_TYPES[i], fm_value)}
    IN  IF hits = {} THEN "Not Classified"
        ELSE SAND_TYPES[CHOOSE i \in hits : \A j \in hits : i >= j].name

get_sand_type(fm_value) ==
    LET hits == {i \in 1..Len(SAND_TYPES) : InBand(SAND_TYPES[i], fm_value)}
    IN  IF hits = {} THEN "Not Classified"
        ELSE SAND_TYPES[CHOOSE i \in hits : \A j \in hits : i <= j].name

(***************************************************************************)
(* State                                                                   *)
(***************************************************************************)
VARIABLES
    weight_cells,            \* table column 1, rows 1..7 (user editable)
    cum_cells,               \* table column 2, rows 1..7
    pass_cells,              \* table column 3, rows 1..7
    total_weight_cell,       \* total row, column 1
    total_cum_cell,          \* total row, column 2
    fm_value,                \* self.fm_value
    cumulative_percentages,  \* self.cumulative_percentages
    result_label,            \* the FM text shown after "Fineness Modulus: "
    export_enabled,          \* self.export_btn.isEnabled()
    graph,                   \* the series drawn by the latest update_graph
    pass_weights,            \* the list `weights` of the latest pass that got through validation
    message,                 \* the dialog shown by the latest step
    report,                  \* the document built by the latest step
    edits                    \* number of edits made so far

resultVars == <<cum_cells, pass_cells, total_weight_cell, total_cum_cell, fm_value,
                cumulative_percentages, result_label, export_enabled, graph, pass_weights>>

vars == <<weight_cells, cum_cells, pass_cells, total_weight_cell, total_cum_cell, fm_value,
          cumulative_percentages, result_label, export_enabled, graph, pass_weights,
          message, report, edits>>

NoMessage == [op |-> "none", kind |-> "none", row |-> 0]

NoGraph == [x |-> <<>>, y |-> <<>>]

NoReport ==
    [made |-> FALSE, fm |-> Empty, sand_type |-> "", weights |-> <<>>, cum |-> <<>>,
     passing |-> <<>>, total_weight |-> Empty, total_cum |-> Empty]

(***************************************************************************)
(* Inputs                                                                  *)
(***************************************************************************)
ExampleWeights == <<90, 70, 60, 80, 95, 60, 45>>

\* weight tables typed in before the first button press: zero total, the
\* FM values 0, 1.0, 2.2, 3.0, 4.0 and 6.0, percentages that need rounding
\* (thirds, 28ths, a tie at the third decimal) and the worked example
InitTables ==
    { <<0, 0, 0, 0, 0, 0, 0>>, <<1, 1, 1, 1, 1, 1, 1>>, <<0, 0, 0, 0, 0, 0, 1>>,
      <<0, 0, 0, 0, 0, 1, 0>>, <<0, 1, 0, 1, 1, 1, 1>>, <<1, 0, 0, 0, 0, 0, 1>>,
      <<1, 0, 0, 0, 1, 0, 0>>, <<1, 0, 0, 0, 0, 0, 0>>, <<1, 2, 3, 4, 5, 6, 7>>,
      <<3, 0, 0, 0, 0, 0, 29>>, ExampleWeights }

\* the tables a user can have on screen before the first button press: the
\* blank table of setup_ui, a table with one cell left blank, full tables
InitCells ==
    {[r \in Rows |-> IntText(w[r])] : w \in InitTables}
        \cup {[r \in Rows |-> Empty], [r \in Rows |-> IF r = 3 THEN Empty ELSE IntText(1)]}

EditTexts ==
    {Empty, Junk, NanText} \cup {IntText(n) : n \in 0..MaxWeight}
        \cup {IntText(-n) : n \in 1..MaxNeg}

(***************************************************************************)
(* __init__ and setup_ui, followed by the user filling the weight column   *)
(***************************************************************************)
\* variant: setup_ui leaves the export button enabled
Init_export_enabled ==
    /\ weight_cells \in InitCells
    /\ cum_cells = [r \in Rows |-> Empty]
    /\ pass_cells = [r \in Rows |-> Empty]
    /\ total_weight_cell = Empty
    /\ total_cum_cell = Empty
    /\ fm_value = Zero
    /\ cumulative_percentages = <<>>
    /\ result_label = Empty
    /\ export_enabled = TRUE
    /\ graph = NoGraph
    /\ pass_weights = <<>>
    /\ message = NoMessage
    /\ report = NoReport
    /\ edits = 0

Init ==
    /\ weight_cells \in InitCells
    /\ cum_cells = [r \in Rows |-> Empty]
    /\ pass_cells = [r \in Rows |-> Empty]
    /\ total_weight_cell = Empty
    /\ total_cum_cell = Empty
    /\ fm_value = Zero
    /\ cumulative_percentages = <<>>
    /\ result_label = Empty
    /\ export_enabled = FALSE
    /\ graph = NoGraph
    /\ pass_weights = <<>>
    /\ message = NoMessage
    /\ report = NoReport
    /\ edits = 0

(***************************************************************************)
(* The user types a new text into a weight cell                            *)
(***************************************************************************)
Edit(row, text) ==
    /\ edits < MaxEdits
    /\ text # weight_cells[row]
    /\ weight_cells' = [weight_cells EXCEPT ![row] = text]
    /\ edits' = edits + 1
    /\ message' = NoMessage
    /\ report' = NoReport
    /\ UNCHANGED resultVars

(***************************************************************************)
(* calculate_fm                                                            *)
(***************************************************************************)
\* rows at which the reading loop raises ValueError
BadRows(cells) == {r \in Rows : cells[r] = Empty \/ ~Parseable(cells[r])}

\* variant: the reading loop runs from the last row up
LastBadRow(cells) == CHOOSE r \in BadRows(cells) : \A s \in BadRows(cells) : r >= s

FirstBadRow(cells) == CHOOSE r \in BadRows(cells) : \A s \in BadRows(cells) : r <= s

\* the list `weights` once the reading loop has finished
weights_of(cells) == [r \in Rows |-> float(cells[r])]

\* total_weight_value once the reading loop has finished
total_weight_value(w) == SumFloats(w, Len(w))

CalcError(kind, row) == [op |-> "calculate", kind |-> kind, row |-> row]

CalcOk == [op |-> "calculate", kind |-> "ok", row |-> 0]

\* the reading loop and the total check: the error raised, or CalcOk
validate(cells) ==
    IF BadRows(cells) # {}
    THEN LET r == FirstBadRow(cells)
         IN  IF cells[r] = Empty THEN CalcError("MissingWeight", r)
             ELSE CalcError("InvalidWeight", 0)
    ELSE IF FLe(total_weight_value(weights_of(cells)), Zero)
         THEN CalcError("ZeroTotalWeight", 0)
         ELSE CalcOk

\* variant: the list keeps the percentage passing
percent_retained_complement(cumulative_sum, total) ==
    FSub(Hundred, FMul(FDiv(cumulative_sum, total), Hundred))

\* line 227
percent_retained(cumulative_sum, total) == FMul(FDiv(cumulative_sum, total), Hundred)

\* line 228
percent_passing(retained) == FSub(Hundred, retained)

\* variant: each sieve's own weight is used, the running sum is lost
RECURSIVE retained_loop_not_cumulative(_, _, _)
retained_loop_not_cumulative(w, total, i) ==
    IF i = 0 THEN [cumulative_sum |-> Zero, percentages |-> <<>>]
    ELSE LET prev == retained_loop_not_cumulative(w, total, i - 1)
         IN  [cumulative_sum |-> w[i],
              percentages |-> Append(prev.percentages, percent_retained(w[i], total))]

\* the loop over weights[:-1] after i iterations: the running cumulative_sum
\* and the list self.cumulative_percentages
RECURSIVE retained_loop(_, _, _)
retained_loop(w, total, i) ==
    IF i = 0 THEN [cumulative_sum |-> Zero, percentages |-> <<>>]
    ELSE LET prev == retained_loop(w, total, i - 1)
             s    == FAdd(prev.cumulative_sum, w[i])
         IN  [cumulative_sum |-> s,
              percentages |-> Append(prev.percentages, percent_retained(s, total))]

\* self.cumulative_percentages after the loop
percentages_of(w) == retained_loop(w, total_weight_value(w), Len(w) - 1).percentages

\* variant: the pan row shows the cumulative percentage of the whole sample
cum_cells_of_pan_computed(cp) ==
    [r \in 1..(Len(cp) + 1) |-> IF r = Len(cp) + 1 THEN Format2(Hundred) ELSE Format2(cp[r])]

\* column 2 after a pass: one text per sieve, "0.00" for the pan
cum_cells_of(cp) ==
    [r \in 1..(Len(cp) + 1) |-> IF r = Len(cp) + 1 THEN Fix2Text(0) ELSE Format2(cp[r])]

\* variant: column 3 repeats the percentage retained
pass_cells_of_retained(cp) ==
    [r \in 1..(Len(cp) + 1) |-> IF r = Len(cp) + 1 THEN Fix2Text(0) ELSE Format2(cp[r])]

\* column 3 after a pass
pass_cells_of(cp) ==
    [r \in 1..(Len(cp) + 1) |->
        IF r = Len(cp) + 1 THEN Fix2Text(0) ELSE Format2(percent_passing(cp[r]))]

\* line 238
fm_of(cp) == FDiv(SumFloats(cp, Len(cp)), Hundred)

\* update_graph: x and y of the gradation curve
update_graph(cp) ==
    [x |-> SubSeq(sieve_sizes, 1, NumSieves - 1),
     y |-> [i \in 1..Len(cp) |-> FSub(Hundred, cp[i])]]

\* variant: the stored list is reset before the weights are read
calculate_fm_resets_first ==
    LET err == validate(weight_cells)
    IN  /\ message' = err
        /\ report' = NoReport
        /\ UNCHANGED <<weight_cells, edits>>
        /\ IF err.kind # "ok"
           THEN /\ cumulative_percentages' = <<>>
                /\ UNCHANGED <<cum_cells, pass_cells, total_weight_cell, total_cum_cell,
                               fm_value, result_label, export_enabled, graph, pass_weights>>
           ELSE /\ pass_weights' = weights_of(weight_cells)
                /\ cumulative_percentages' = percentages_of(pass_weights')
                /\ cum_cells' = cum_cells_of(cumulative_percentages')
                /\ pass_cells' = pass_cells_of(cumulative_percentages')
                /\ fm_value' = fm_of(cumulative_percentages')
                /\ result_label' = Format2(fm_value')
                /\ export_enabled' = TRUE
                /\ graph' = update_graph(cumulative_percentages')
                /\ total_weight_cell' = Format2(total_weight_value(pass_weights'))
                /\ total_cum_cell' =
                      Format2(SumFloats(cumulative_percentages', Len(cumulative_percentages')))

calculate_fm ==
    LET err == validate(weight_cells)
    IN  /\ message' = err
        /\ report' = NoReport
        /\ UNCHANGED <<weight_cells, edits>>
        /\ IF err.kind # "ok"
           THEN UNCHANGED resultVars
           ELSE /\ pass_weights' = weights_of(weight_cells)
                /\ cumulative_percentages' = percentages_of(pass_weights')
                /\ cum_cells' = cum_cells_of(cumulative_percentages')
                /\ pass_cells' = pass_cells_of(cumulative_percentages')
                /\ fm_value' = fm_of(cumulative_percentages')
                /\ result_label' = Format2(fm_value')
                /\ export_enabled' = TRUE
                /\ graph' = update_graph(cumulative_percentages')
                /\ total_weight_cell' = Format2(total_weight_value(pass_weights'))
                /\ total_cum_cell' =
                      Format2(SumFloats(cumulative_percentages', Len(cumulative_percentages')))

(***************************************************************************)
(* export_report                                                           *)
(***************************************************************************)
\* float(text) if text else 0
float_or_zero(text) == IF text = Empty THEN Zero ELSE float(text)

dash_if_empty(text) == IF text = Empty THEN Dash ELSE text

\* the document: test results, one row per sieve, the total row
build_report ==
    [made |-> TRUE,
     fm |-> Format2(fm_value),
     sand_type |-> get_sand_type(fm_value),
     weights |-> [r \in Rows |-> dash_if_empty(weight_cells[r])],
     cum |-> [r \in Rows |-> dash_if_empty(cum_cells[r])],
     passing |-> pass_cells,
     total_weight |->
         Format2(SumFloats([r \in Rows |-> float_or_zero(weight_cells[r])], NumSieves)),
     total_cum |->
         Format2(SumFloats([r \in Rows |-> float_or_zero(cum_cells[r])], NumSieves))]

\* the rows loop raises ValueError on a non-empty text float() rejects
ExportRaises ==
    \E r \in Rows :
        \/ weight_cells[r] # Empty /\ ~Parseable(weight_cells[r])
        \/ cum_cells[r] # Empty /\ ~Parseable(cum_cells[r])

export_report ==
    /\ export_enabled
    /\ \E accepted \in BOOLEAN, path \in BOOLEAN :
        IF ~accepted \/ ~path
        THEN /\ message' = NoMessage
             /\ report' = NoReport
        ELSE IF ExportRaises
        THEN /\ message' = [op |-> "export", kind |-> "ExportError", row |-> 0]
             /\ report' = NoReport
        ELSE /\ message' = [op |-> "export", kind |-> "ok", row |-> 0]
             /\ report' = build_report
    /\ UNCHANGED <<weight_cells, edits>>
    /\ UNCHANGED resultVars

Next ==
    \/ \E row \in Rows, text \in EditTexts : Edit(row, text)
    \/ calculate_fm
    \/ export_report

Spec == Init /\ [][Next]_vars

(***************************************************************************)
(* Vocabulary of the properties                                            *)
(***************************************************************************)
\* the latest step was a calculate_fm; weight_cells are the texts it read
Calculated == message.op = "calculate"

Succeeded == message = CalcOk

IsNumberText(text) == text.t \in {"int", "fix2"}

\* seven non-negative weights with a total above zero
ValidDataset(cells) ==
    /\ \A r \in Rows : cells[r].t = "int" /\ cells[r].v >= 0
    /\ \E r \in Rows : cells[r].v > 0

\* w_1 + ... + w_i of a table of integer literals
RECURSIVE PrefixWeight(_, _)
PrefixWeight(cells, i) == IF i = 0 THEN 0 ELSE PrefixWeight(cells, i - 1) + cells[i].v

\* (w_1) + (w_1 + w_2) + ... + (w_1 + ... + w_i)
RECURSIVE PrefixWeightSum(_, _)
PrefixWeightSum(cells, i) ==
    IF i = 0 THEN 0 ELSE PrefixWeightSum(cells, i - 1) + PrefixWeight(cells, i)

EmptyRows(cells) == {r \in Rows : cells[r] = Empty}

FirstEmptyRow(cells) == CHOOSE r \in EmptyRows(cells) : \A s \in EmptyRows(cells) : r <= s

\* a < b on fractions with positive denominators
FracLess(an, ad, bn, bd) == an * bd < bn * ad

(***************************************************************************)
(* C1.  Whenever calculate has read seven number texts of which at least   *)
(* one is negative, it has failed with InvalidWeight, also when the total  *)
(* is above zero.                                                          *)
(***************************************************************************)
C1_NegativeWeightRejected ==
    ( /\ Calculated
      /\ \A r \in Rows : IsNumberText(weight_cells[r])
      /\ \E r \in Rows : weight_cells[r].v < 0 )
        => message.kind = "InvalidWeight"

(***************************************************************************)
(* C2.  A calculate step that fails (MissingWeight, InvalidWeight or       *)
(* ZeroTotalWeight) emits no report and leaves the stored FM, the stored   *)
(* cumulative list, columns 2 and 3 of every row, the total row, the FM    *)
(* label, the graph and the enabling of export as they were.               *)
(***************************************************************************)
C2_FailedCalculateKeepsResult ==
    [][ (message'.op = "calculate" /\ message'.kind # "ok")
            => /\ message'.kind \in {"MissingWeight", "InvalidWeight", "ZeroTotalWeight"}
               /\ report' = NoReport
               /\ UNCHANGED <<fm_value, cumulative_percentages, cum_cells, pass_cells,
                              total_weight_cell, total_cum_cell, result_label, graph,
                              export_enabled>> ]_vars

\* a failed calculate on top of an earlier result
C2_Witness ==
    /\ Calculated
    /\ message.kind \in {"MissingWeight", "InvalidWeight", "ZeroTotalWeight"}
    /\ export_enabled
    /\ Len(cumulative_percentages) = NumSieves - 1

(***************************************************************************)
(* C3.  Every report shows per-sieve weights, cumulative values, an FM and *)
(* a sand type that come from one successful calculate pass: the weights   *)
(* printed are the weights that pass read.                                 *)
(***************************************************************************)
C3_ReportFromOnePass ==
    report.made =>
        /\ Len(pass_weights) = NumSieves
        /\ \A r \in Rows :
              /\ Parseable(report.weights[r])
              /\ float(report.weights[r]) = pass_weights[r]
        /\ report.fm = Format2(fm_of(percentages_of(pass_weights)))
        /\ report.sand_type = get_sand_type(fm_of(percentages_of(pass_weights)))
        /\ report.cum = cum_cells_of(percentages_of(pass_weights))

(***************************************************************************)
(* C4.  As claimed: whenever calculate has read a table with a blank cell, *)
(* it has failed with MissingWeight naming the first blank row.            *)
(***************************************************************************)
C4_BlankAlwaysMissingWeight ==
    (Calculated /\ EmptyRows(weight_cells) # {})
        => message = CalcError("MissingWeight", FirstEmptyRow(weight_cells))

(***************************************************************************)
(* C4, amended.  A calculate step on a table with a blank cell fails and   *)
(* writes nothing; it fails with MissingWeight naming the first blank row  *)
(* (1-based) when every cell before that row is a text float() accepts,    *)
(* and with InvalidWeight when a cell before it is not.                    *)
(***************************************************************************)
C4_BlankFailsBeforeComputation ==
    [][ (message'.op = "calculate" /\ EmptyRows(weight_cells') # {})
            => LET first == FirstEmptyRow(weight_cells')
               IN  /\ UNCHANGED <<fm_value, cumulative_percentages, cum_cells, pass_cells,
                                  total_weight_cell, total_cum_cell, result_label, graph,
                                  export_enabled>>
                   /\ IF \A r \in 1..(first - 1) : Parseable(weight_cells'[r])
                      THEN message' = CalcError("MissingWeight", first)
                      ELSE message'.kind = "InvalidWeight" ]_vars

\* MissingWeight names a blank row that is neither the first row nor the only bad cell
C4_Witness ==
    /\ Calculated
    /\ message.kind = "MissingWeight"
    /\ message.row > 1
    /\ \E r \in Rows : r > message.row /\ weight_cells[r] \in {Empty, Junk}

(***************************************************************************)
(* C5.  Whenever calculate has read seven texts float() accepts whose sum  *)
(* is <= 0 it has failed with ZeroTotalWeight, and whenever it has got to  *)
(* the division the total it divided by is strictly greater than zero.     *)
(***************************************************************************)
C5_DivisionOnlyByPositiveTotal ==
    Calculated =>
        /\ ( /\ \A r \in Rows : Parseable(weight_cells[r])
             /\ FLe(SumFloats(weights_of(weight_cells), NumSieves), Zero) )
               => message.kind = "ZeroTotalWeight"
        /\ Succeeded =>
              LET total == SumFloats(pass_weights, NumSieves)
              IN  total.k = "num" /\ total.n > 0

(***************************************************************************)
(* C6.  After a successful calculate on a valid dataset, cumulative        *)
(* percentage i is 100 * (w_1 + ... + w_i) / total for the six sieves      *)
(* above the pan, total being the sum of all seven weights, and FM is the  *)
(* sum of the six percentages divided by 100.                              *)
(***************************************************************************)
C6_FMFormula ==
    (Succeeded /\ ValidDataset(weight_cells)) =>
        LET total == PrefixWeight(weight_cells, NumSieves)
        IN  /\ Len(cumulative_percentages) = NumSieves - 1
            /\ \A i \in 1..(NumSieves - 1) :
                  /\ cumulative_percentages[i].k = "num"
                  /\ cumulative_percentages[i].n * total
                        = 100 * PrefixWeight(weight_cells, i) * cumulative_percentages[i].d
            /\ fm_value.k = "num"
            /\ fm_value.n * total
                  = PrefixWeightSum(weight_cells, NumSieves - 1) * fm_value.d

\* the worked example: cumulative retained 18, 32, 44, 60, 79, 91 and FM 3.24
C6_Witness ==
    /\ Succeeded
    /\ weight_cells = [r \in Rows |-> IntText(ExampleWeights[r])]
    /\ cumulative_percentages
          = <<Num(18, 1), Num(32, 1), Num(44, 1), Num(60, 1), Num(79, 1), Num(91, 1)>>
    /\ fm_value = Num(324, 100)
    /\ result_label = Fix2Text(324)

(***************************************************************************)
(* C7.  The sand type printed in a report is one of the four names, found  *)
(* by first match over closed bands: Fine Sand for 1.0 <= FM <= 2.2,       *)
(* Medium Sand for 2.2 < FM <= 3.0, Coarse Sand for 3.0 < FM <= 4.0, and   *)
(* Not Classified exactly when FM is below 1.0, above 4.0 or not a number. *)
(***************************************************************************)
C7_SandTypeBands ==
    report.made =>
        LET s == report.sand_type
            n == fm_value.n
            d == fm_value.d
        IN  /\ s \in {"Fine Sand", "Medium Sand", "Coarse Sand", "Not Classified"}
            /\ IF fm_value.k # "num" THEN s = "Not Classified"
               ELSE /\ (s = "Fine Sand") <=> (~FracLess(n, d, 10, 10) /\ ~FracLess(22, 10, n, d))
                    /\ (s = "Medium Sand") <=> (FracLess(22, 10, n, d) /\ ~FracLess(30, 10, n, d))
                    /\ (s = "Coarse Sand") <=> (FracLess(30, 10, n, d) /\ ~FracLess(40, 10, n, d))
                    /\ (s = "Not Classified") <=> (FracLess(n, d, 10, 10) \/ FracLess(40, 10, n, d))

\* a report for FM = 2.2, on the boundary shared by Fine Sand and Medium Sand
C7_Witness ==
    /\ report.made
    /\ fm_value = Num(22, 10)
    /\ report.sand_type = "Fine Sand"

(***************************************************************************)
(* C8.  After a successful calculate, and for as long as export stays      *)
(* enabled, the pan row shows 0.00 in columns 2 and 3 and the cumulative   *)
(* list has six entries; right after the pass the total row's weight is    *)
(* the sum of all seven weights, the pan's included.                       *)
(***************************************************************************)
C8_PanRow ==
    /\ export_enabled =>
          /\ cum_cells[NumSieves] = Fix2Text(0)
          /\ pass_cells[NumSieves] = Fix2Text(0)
          /\ Len(cumulative_percentages) = NumSieves - 1
          /\ Len(graph.y) = NumSieves - 1
    /\ (Succeeded /\ \A r \in Rows : weight_cells[r].t = "int") =>
          total_weight_cell = Fix2Text(100 * PrefixWeight(weight_cells, NumSieves))

\* a successful pass over a table whose pan holds weight
C8_Witness ==
    /\ Succeeded
    /\ ValidDataset(weight_cells)
    /\ weight_cells[NumSieves].v > 0
    /\ cum_cells[NumSieves - 1] # Fix2Text(10000)

(***************************************************************************)
(* C9.  After a successful calculate on a valid dataset, moving an amount  *)
(* d >= 1 of weight from a position j to a coarser position i < j (total   *)
(* unchanged) gives a dataset whose FM is at least the FM just computed.   *)
(***************************************************************************)
Coarsened(w, i, j, d) ==
    [r \in Rows |-> IF r = i THEN FAdd(w[r], Num(d, 1))
                    ELSE IF r = j THEN FSub(w[r], Num(d, 1)) ELSE w[r]]

C9_FMMonotoneUnderCoarsening ==
    (Succeeded /\ ValidDataset(weight_cells)) =>
        \A j \in Rows : \A i \in 1..(j - 1) : \A d \in 1..MaxShift :
            d <= weight_cells[j].v =>
                FLe(fm_value, fm_of(percentages_of(Coarsened(pass_weights, i, j, d))))

\* a dataset of which a coarsening has a strictly larger FM
C9_Witness ==
    /\ Succeeded
    /\ ValidDataset(weight_cells)
    /\ \E j \in Rows : \E i \in 1..(j - 1) : \E d \in 1..MaxShift :
          /\ d <= weight_cells[j].v
          /\ ~FLe(fm_of(percentages_of(Coarsened(pass_weights, i, j, d))), fm_value)

(***************************************************************************)
(* C10.  After a successful calculate on a valid dataset, for each of the  *)
(* six sieves above the pan the two printed percentages add up to 100.00   *)
(* within 0.01, and the curve's point for the sieve is at the sieve's      *)
(* opening with the y-value that prints as the row's percent passing.      *)
(***************************************************************************)
C10_PassingComplementsRetained ==
    (Succeeded /\ ValidDataset(weight_cells)) =>
        /\ Len(graph.y) = NumSieves - 1
        /\ \A i \in 1..(NumSieves - 1) :
              /\ cum_cells[i].t = "fix2"
              /\ pass_cells[i].t = "fix2"
              /\ Abs(cum_cells[i].v + pass_cells[i].v - 10000) <= 1
              /\ graph.x[i] = sieve_sizes[i]
              /\ Format2(graph.y[i]) = pass_cells[i]

\* a pass whose percentages are not whole hundredths, so that both columns are rounded
C10_Witness ==
    /\ Succeeded
    /\ ValidDataset(weight_cells)
    /\ \E i \in 1..(NumSieves - 1) :
          /\ cumulative_percentages[i] # float(cum_cells[i])
          /\ graph.y[i] # float(pass_cells[i])

(***************************************************************************)
(* C11.  In every report made from a pass over a valid dataset, the total  *)
(* cumulative-retained printed in the report's total row is the text that  *)
(* calculate wrote to the table's total row, and both are 100 * FM printed *)
(* with two decimals.                                                      *)
(***************************************************************************)
C11_TotalRowSameEverywhere ==
    ( /\ report.made
      /\ Len(pass_weights) = NumSieves
      /\ \A r \in Rows : pass_weights[r].k = "num" /\ pass_weights[r].n >= 0 )
        => /\ report.total_cum = total_cum_cell
           /\ total_cum_cell = Format2(FMul(fm_value, Hundred))

(***************************************************************************)
(* C12.  Export is disabled at start-up; whenever it is enabled, or a      *)
(* curve is drawn, a calculate pass has got through validation and has     *)
(* written the six cumulative percentages and the FM the curve and the     *)
(* label are read from; a failed calculate leaves the enabling as it was,  *)
(* only a successful calculate step turns it on, and only such a step      *)
(* changes the curve, drawing it from the list that step has stored.       *)
(***************************************************************************)
C12_ExportOnlyAfterSuccessfulPass ==
    /\ ~export_enabled
    /\ [](  (export_enabled \/ graph # NoGraph) =>
                /\ export_enabled
                /\ Len(pass_weights) = NumSieves
                /\ cumulative_percentages = percentages_of(pass_weights)
                /\ fm_value = fm_of(cumulative_percentages)
                /\ graph = update_graph(cumulative_percentages) )
    /\ [][ /\ (message'.op = "calculate" /\ message'.kind # "ok")
                => (export_enabled' = export_enabled /\ graph' = graph)
           /\ (export_enabled' /\ ~export_enabled) => message' = CalcOk
           /\ (graph' # graph) =>
                /\ message' = CalcOk
                /\ graph'.y = [i \in 1..(NumSieves - 1) |->
                                  FSub(Hundred, cumulative_percentages'[i])] ]_vars

\* export enabled by a pass, a curve on screen, and a later calculate that failed
C12_Witness ==
    /\ export_enabled
    /\ Len(graph.y) = NumSieves - 1
    /\ Calculated
    /\ message.kind # "ok"

====
